---- MODULE Spec2Model ----
(***************************************************************************)
(* Model of the bpb_analysis pipeline stages:                              *)
(*   02_cooccurrence.py     pairwise association table (lift / PMI)        *)
(*   03_reaper_clustering.py cluster item statistics and core items        *)
(*   05_build_variations.py build variations from the two tables           *)
(* Each stage is a script; a stage's run is a sequence of steps and the    *)
(* stages have their own specification (SpecCluster, SpecCooc, SpecVar).   *)
(* Rates and ratios are exact rationals <<n, d>> with d > 0; a pandas      *)
(* float cell is <<tag, n, d>> with tag "num", "nan" or "inf".             *)
(***************************************************************************)
EXTENDS Integers, Sequences, FiniteSets, TLC

VARIABLES
  \* ---- 03_reaper_clustering.py
  pc3,            \* position of the clustering script
  mat,            \* feature matrix: sequence of rows, a row is the set of columns holding 1
  labels,         \* cluster label of each matrix row (KMeans.fit_predict)
  cfg3,           \* the CONFIG block of the clustering script
  stats_df,       \* cluster_item_stats(mat_df, labels)
  core_by_lift,   \* select_core_items(stats_df)[0]
  core_by_freq,   \* select_core_items(stats_df)[1]
  \* ---- 02_cooccurrence.py
  pc2,            \* how often the co-occurrence script has run
  db,             \* battles.rounds and battles.round_items
  cfg2,           \* the CONFIG block of the co-occurrence script
  cooc_csv,       \* bpb_out/cooccurrence_<tag>.csv, the rows in file order
  cooc_prev,      \* the file as the run before left it
  \* ---- 05_build_variations.py
  pc5,            \* position of main()
  core_lookup,    \* _load_core_items(DB_CLUSTER_CORE): cluster -> core item list
  stats5,         \* _load_cluster_stats(DB_CLUSTER_STATS)
  pairs_df,       \* _load_pairs(DB_COOC)
  bv_result,      \* what build_variations returned, or the exception it raised
  out_rows,       \* the rows OUT_PATH holds
  inputs5,        \* DB_CLUSTER_CORE, DB_CLUSTER_STATS, DB_COOC: a file's rows, or Missing
  out_file,       \* OUT_PATH: "absent", "old" (left by an earlier run) or "written"
  \* ---- 03_reaper_clustering.py, from the database to the output files
  db3,            \* battles.rounds (with result) and battles.round_items
  cfgR,           \* CLASS_REGEX, MIN_ITEM_FREQ, MAX_ITEMS
  df3,            \* df = fetch_final_items(con, CLASS_REGEX)
  log3,           \* what the script printed, and the SystemExit it raised
  freq,           \* build_matrix: df["item_name"].value_counts()
  mat_index,      \* mat.index: the match of each matrix row
  result,         \* the result label of each matrix row
  last_r,         \* the final-round label of each matrix row
  summary,        \* the cluster summary frame
  files3,         \* the output tables written
  \* ---- main.py
  pcI,            \* what the ingest script did last
  raw_dir,        \* RAW_DIR: file name -> the round records of the file
  store           \* battles.rounds and battles.round_items with source_file

vars3 == <<pc3, mat, labels, cfg3, stats_df, core_by_lift, core_by_freq>>
vars2 == <<pc2, db, cfg2, cooc_csv, cooc_prev>>
vars5 == <<pc5, core_lookup, stats5, pairs_df, bv_result, out_rows>>
varsM == <<inputs5, out_file>>
varsR == <<db3, cfgR, df3, log3, freq, mat_index, result, last_r, summary, files3>>
varsI == <<pcI, raw_dir, store>>
vars == <<vars3, vars2, vars5, varsM, varsR, varsI>>

\* ------------------------------------------------------------------ bounds
MaxRows == 2          \* rows of the feature matrix
MaxTopK == 2          \* largest CORE_TOP_K tried
MaxRoundRows == 3     \* rows of battles.rounds
MaxPairs == 2         \* rows of the co-occurrence table handed to build_variations
K == 2                \* n_clusters

\* ------------------------------------------------------------------ rationals
Rat(n, d) == <<n, d>>
RLe(a, b) == a[1] * b[2] <= b[1] * a[2]
RLt(a, b) == a[1] * b[2] < b[1] * a[2]
REq(a, b) == a[1] * b[2] = b[1] * a[2]
RSub(a, b) == <<a[1] * b[2] - b[1] * a[2], a[2] * b[2]>>

\* ------------------------------------------------------------------ float cells
NaN == <<"nan", 0, 1>>
Inf == <<"inf", 0, 1>>
Num(r) == <<"num", r[1], r[2]>>
IsNum(x) == x[1] = "num"
RatOf(x) == <<x[2], x[3]>>

\* Series.replace(0, np.nan)
ReplaceZeroByNaN(x) == IF IsNum(x) /\ x[2] = 0 THEN NaN ELSE x

\* subtraction in place of division
FloatDiv_Sub(x, y) ==
  IF x = NaN \/ y = NaN THEN NaN
  ELSE IF x = Inf \/ y = Inf THEN Inf
  ELSE Num(RSub(RatOf(x), RatOf(y)))

\* numpy float division under errstate(divide="ignore", invalid="ignore")
FloatDiv(x, y) ==
  IF x = NaN \/ y = NaN THEN NaN
  ELSE IF y = Inf THEN (IF x = Inf THEN NaN ELSE Num(Rat(0, 1)))
  ELSE IF x = Inf THEN Inf
  ELSE IF y[2] = 0 THEN (IF x[2] = 0 THEN NaN ELSE Inf)
  ELSE Num(Rat(x[2] * y[3], x[3] * y[2]))

\* Series.replace([np.inf, -np.inf], np.nan)
ReplaceInfByNaN(x) == IF x = Inf THEN NaN ELSE x

\* Series.fillna(0.0)
FillNa0(x) == IF x = NaN THEN Num(Rat(0, 1)) ELSE x

\* ------------------------------------------------------------------ sorting
\* Lexicographic "strictly greater" on key tuples of rationals.
RECURSIVE KeyGt(_, _)
KeyGt(k1, k2) ==
  IF k1 = <<>> THEN FALSE
  ELSE IF RLt(k2[1], k1[1]) THEN TRUE
  ELSE IF RLt(k1[1], k2[1]) THEN FALSE
  ELSE KeyGt(Tail(k1), Tail(k2))

\* Insert e after every element whose key is not smaller (stable, descending).
RECURSIVE InsertDesc(_, _)
InsertDesc(s, e) ==
  IF s = <<>> THEN <<e>>
  ELSE IF KeyGt(e.key, s[1].key) THEN <<e>> \o s
  ELSE <<s[1]>> \o InsertDesc(Tail(s), e)

\* DataFrame.sort_values([...], ascending=False) on several columns: a stable
\* lexsort, rows with equal keys keep their order.
RECURSIVE SortValuesDesc(_)
SortValuesDesc(s) ==
  IF s = <<>> THEN <<>>
  ELSE InsertDesc(SortValuesDesc(SubSeq(s, 1, Len(s) - 1)), s[Len(s)])

\* the elements of a list
Range(s) == {s[i] : i \in DOMAIN s}

\* DataFrame.head(n)
Head_n(s, n) == SubSeq(s, 1, IF Len(s) < n THEN Len(s) ELSE n)

\* ------------------------------------------------------------------ 03: data
Items == <<"a", "b", "c">>            \* item names, in lexicographic order
ItemIdx == 1..Len(Items)
ItemNames == {Items[i] : i \in ItemIdx}

\* A matrix from build_matrix's pivot_table: one row per match carrying a kept
\* item (no all-zero row), one column per item some row carries (no all-zero
\* column).  A row is the set of items whose cell is 1.
Matrices == UNION {[1..n -> (SUBSET ItemIdx) \ {{}}] : n \in 1..MaxRows}

\* mat_df.columns: the items present, in lexicographic order
RECURSIVE SortedSeq(_)
SortedSeq(S) ==
  IF S = {} THEN <<>>
  ELSE LET lo == CHOOSE x \in S : \A y \in S : x <= y
       IN <<lo>> \o SortedSeq(S \ {lo})
Columns(m) == SortedSeq(UNION {m[i] : i \in DOMAIN m})

\* ------------------------------------------------------------------ 03: config
\* CORE_MIN_CLUSTER_RATE, CORE_MIN_LIFT, CORE_MIN_COUNT, STAPLE_MAX_GLOBAL_RATE
\* (<<>> stands for None) and CORE_TOP_K: the values of the source and others.
MinClusterRates == {Rat(3, 10), Rat(1, 1)}
MinLifts == {Rat(6, 5), Rat(1, 1)}
MinCounts == {1, 10}
StapleRates == {<<>>, Rat(13, 20)}
Configs3 ==
  [CORE_TOP_K : 1..MaxTopK, CORE_MIN_CLUSTER_RATE : MinClusterRates,
   CORE_MIN_LIFT : MinLifts, CORE_MIN_COUNT : MinCounts,
   STAPLE_MAX_GLOBAL_RATE : StapleRates]
NoConfig == [CORE_TOP_K |-> 0]

\* ------------------------------------------------------------------ 03: cluster_item_stats
\* mat_df[labels == c]: the indices of the rows labelled c
ClusterRows(m, l, c) == {i \in DOMAIN m : l[i] = c}
\* column sums over the whole matrix in place of the given rows
ColCount_AllRows(m, rows, j) == Cardinality({i \in DOMAIN m : j \in m[i]})
\* column sums over a set of rows
ColCount(m, rows, j) == Cardinality({i \in rows : j \in m[i]})

\* one row of the statistics table
StatRow(m, l, c, j) ==
  LET rows == ClusterRows(m, l, c)
      cluster_count == ColCount(m, rows, j)
      cluster_rate == Rat(cluster_count, Cardinality(rows))
      overall_count == ColCount(m, DOMAIN m, j)
      overall_rate == Rat(overall_count, Len(m))
      lift == FillNa0(ReplaceInfByNaN(
                FloatDiv(Num(cluster_rate), ReplaceZeroByNaN(Num(overall_rate)))))
  IN [cluster |-> c, item |-> Items[j],
      cluster_rate |-> cluster_rate, cluster_count |-> cluster_count,
      overall_rate |-> overall_rate, overall_count |-> overall_count,
      lift |-> lift, rate_advantage |-> RSub(cluster_rate, overall_rate)]

\* the frame of one cluster: one row per column, in column order
ClusterFrame(m, l, c) ==
  [k \in DOMAIN Columns(m) |-> StatRow(m, l, c, Columns(m)[k])]

\* for c in sorted(labels.unique()): ... rows.append(tmp); pd.concat(rows)
RECURSIVE ConcatFrames(_, _, _)
ConcatFrames(m, l, c) ==
  IF c >= K THEN <<>>
  ELSE IF ClusterRows(m, l, c) = {} \/ Columns(m) = <<>> THEN ConcatFrames(m, l, c + 1)
  ELSE ClusterFrame(m, l, c) \o ConcatFrames(m, l, c + 1)

cluster_item_stats(m, l) == ConcatFrames(m, l, 0)

\* ------------------------------------------------------------------ 03: select_core_items
GroupOf(df, c) == SelectSeq(df, LAMBDA r : r.cluster = c)
ClustersOf(df) == {df[i].cluster : i \in DOMAIN df}
ItemList(s) == [i \in DOMAIN s |-> s[i].item]
Unkey(s) == [i \in DOMAIN s |-> s[i].row]

\* group.sort_values(["cluster_rate", "cluster_count"], ascending=False)
SortByFreq(group) ==
  Unkey(SortValuesDesc([i \in DOMAIN group |->
    [key |-> <<group[i].cluster_rate, Rat(group[i].cluster_count, 1)>>,
     row |-> group[i]]]))

\* the eligible items ranked as the frequency list is
SortByLift_AsFreq(group) == SortByFreq(group)

\* eligible.sort_values(["lift", "cluster_rate", "cluster_count"], ascending=False)
SortByLift(group) ==
  Unkey(SortValuesDesc([i \in DOMAIN group |->
    [key |-> <<RatOf(group[i].lift), group[i].cluster_rate,
               Rat(group[i].cluster_count, 1)>>,
     row |-> group[i]]]))

IsEligible(r, cfg) ==
  /\ RLe(cfg.CORE_MIN_CLUSTER_RATE, r.cluster_rate)
  /\ r.cluster_count >= cfg.CORE_MIN_COUNT
  /\ RLe(cfg.CORE_MIN_LIFT, RatOf(r.lift))
  /\ (cfg.STAPLE_MAX_GLOBAL_RATE # <<>> =>
        RLe(r.overall_rate, cfg.STAPLE_MAX_GLOBAL_RATE))

Eligible(group, cfg) == SelectSeq(group, LAMBDA r : IsEligible(r, cfg))

\* no fallback to the frequency ranking
Shortlisted_NoFallback(group, cfg) ==
  Head_n(SortByLift(Eligible(group, cfg)), cfg.CORE_TOP_K)

Shortlisted(group, cfg) ==
  IF Eligible(group, cfg) = <<>>
  THEN Head_n(SortByFreq(group), cfg.CORE_TOP_K)
  ELSE Head_n(SortByLift(Eligible(group, cfg)), cfg.CORE_TOP_K)

result_lift(df, cfg) ==
  [c \in ClustersOf(df) |-> ItemList(Shortlisted(GroupOf(df, c), cfg))]
result_freq(df, cfg) ==
  [c \in ClustersOf(df) |-> ItemList(Head_n(SortByFreq(GroupOf(df, c)), cfg.CORE_TOP_K))]

\* ------------------------------------------------------------------ 03: the script
Idle2 ==
  /\ pc2 = "off"
  /\ db = [rounds |-> {}, round_items |-> {}]
  /\ cfg2 = [SCOPE |-> "final"]
  /\ cooc_csv = <<>>
  /\ cooc_prev = <<>>

Idle5 ==
  /\ pc5 = "off"
  /\ core_lookup = <<>>
  /\ stats5 = <<>>
  /\ pairs_df = <<>>
  /\ bv_result = [status |-> "none", variations |-> <<>>]
  /\ out_rows = <<>>

\* a file that does not exist
Missing == [exists |-> FALSE, rows |-> <<>>]
\* a file holding rows
File(rows) == [exists |-> TRUE, rows |-> rows]

IdleM ==
  /\ inputs5 = [core |-> Missing, stats |-> Missing, cooc |-> Missing]
  /\ out_file = "absent"

IdleR ==
  /\ db3 = [rounds |-> {}, round_items |-> {}]
  /\ cfgR = [CLASS_REGEX |-> [truthy |-> FALSE, hits |-> {}]]
  /\ df3 = {}
  /\ log3 = <<>>
  /\ freq = <<>>
  /\ mat_index = <<>>
  /\ result = <<>>
  /\ last_r = <<>>
  /\ summary = <<>>
  /\ files3 = <<>>

IdleI ==
  /\ pcI = "off"
  /\ raw_dir = <<>>
  /\ store = [rounds |-> {}, round_items |-> {}]

Init3 ==
  /\ Idle2
  /\ Idle5
  /\ IdleM
  /\ IdleR
  /\ IdleI
  /\ pc3 = "matrix"
  /\ mat \in Matrices
  /\ labels = <<>>
  /\ cfg3 = NoConfig
  /\ stats_df = <<>>
  /\ core_by_lift = <<>>
  /\ core_by_freq = <<>>

\* labels = pd.Series(km.fit_predict(mat.values), index=mat.index)
FitPredict ==
  /\ UNCHANGED <<vars2, vars5, varsM, varsR, varsI>>
  /\ pc3 = "matrix"
  /\ \E l \in [DOMAIN mat -> 0..(K - 1)] : labels' = l
  /\ pc3' = "labels"
  /\ UNCHANGED <<mat, cfg3, stats_df, core_by_lift, core_by_freq>>

\* stats_df = cluster_item_stats(mat_df, labels)
ClusterItemStats ==
  /\ UNCHANGED <<vars2, vars5, varsM, varsR, varsI>>
  /\ pc3 = "labels"
  /\ stats_df' = cluster_item_stats(mat, labels)
  /\ pc3' = "stats"
  /\ UNCHANGED <<mat, labels, cfg3, core_by_lift, core_by_freq>>

\* core_by_lift, core_by_freq = select_core_items(stats_df)
SelectCoreItems ==
  /\ UNCHANGED <<vars2, vars5, varsM, varsR, varsI>>
  /\ pc3 = "stats"
  /\ \E cfg \in Configs3 :
       /\ cfg3' = cfg
       /\ core_by_lift' = result_lift(stats_df, cfg)
       /\ core_by_freq' = result_freq(stats_df, cfg)
  /\ pc3' = "core"
  /\ UNCHANGED <<mat, labels, stats_df>>

Next3 == FitPredict \/ ClusterItemStats \/ SelectCoreItems

SpecCluster == Init3 /\ [][Next3]_vars

\* ------------------------------------------------------------------ 03: properties
NoRepeat(s) == \A i, j \in DOMAIN s : i # j => s[i] # s[j]
Min2(a, b) == IF a < b THEN a ELSE b
NonEmptyClusters == {c \in 0..(K - 1) : ClusterRows(mat, labels, c) # {}}
RowsOfCluster(c) == {r \in Range(stats_df) : r.cluster = c}
RowOfItem(c, it) == CHOOSE r \in RowsOfCluster(c) : r.item = it
MeetsThresholds(r) ==
  /\ RLe(cfg3.CORE_MIN_CLUSTER_RATE, r.cluster_rate)
  /\ r.cluster_count >= cfg3.CORE_MIN_COUNT
  /\ r.lift[1] = "num" /\ r.lift[2] * cfg3.CORE_MIN_LIFT[2] >= cfg3.CORE_MIN_LIFT[1] * r.lift[3]
  /\ (cfg3.STAPLE_MAX_GLOBAL_RATE = <<>> \/ RLe(r.overall_rate, cfg3.STAPLE_MAX_GLOBAL_RATE))
EligibleRows(c) == {r \in RowsOfCluster(c) : MeetsThresholds(r)}
LiftKey(r) == <<RatOf(r.lift), r.cluster_rate, Rat(r.cluster_count, 1)>>
FreqKey(r) == <<r.cluster_rate, Rat(r.cluster_count, 1)>>

\* core is the first k of pool ranked by Key, descending
IsTopK(c, core, pool, Key(_), k) ==
  /\ Len(core) = Min2(k, Cardinality(pool))
  /\ NoRepeat(core)
  /\ Range(core) \subseteq {r.item : r \in pool}
  /\ \A i, j \in DOMAIN core :
       i < j => ~KeyGt(Key(RowOfItem(c, core[j])), Key(RowOfItem(c, core[i])))
  /\ \A r \in pool : r.item \notin Range(core) =>
       \A i \in DOMAIN core : ~KeyGt(Key(r), Key(RowOfItem(c, core[i])))

\* C1: every cluster with at least one match gets a core list that is not
\* empty, has at most CORE_TOP_K items and repeats no item, whatever the
\* thresholds are.
C1_CoreNeverEmpty ==
  pc3 = "core" =>
    \A c \in NonEmptyClusters :
      /\ c \in DOMAIN core_by_lift
      /\ Len(core_by_lift[c]) >= 1
      /\ Len(core_by_lift[c]) <= cfg3.CORE_TOP_K
      /\ NoRepeat(core_by_lift[c])

\* a cluster no item of which meets the thresholds, with more columns than
\* CORE_TOP_K, has a full core list
C1_Witness ==
  /\ pc3 = "core"
  /\ \E c \in NonEmptyClusters :
       /\ EligibleRows(c) = {}
       /\ Len(Columns(mat)) > cfg3.CORE_TOP_K
       /\ Len(core_by_lift[c]) = cfg3.CORE_TOP_K

\* C2: with an eligible item, the core list is the first CORE_TOP_K eligible
\* items by (lift, cluster_rate, cluster_count) descending and holds no
\* ineligible item; with none, it is the first CORE_TOP_K of all the cluster's
\* items by (cluster_rate, cluster_count) descending.
C2_TwoPhaseChoice ==
  pc3 = "core" =>
    \A c \in DOMAIN core_by_lift :
      IF EligibleRows(c) # {}
      THEN IsTopK(c, core_by_lift[c], EligibleRows(c), LiftKey, cfg3.CORE_TOP_K)
      ELSE IsTopK(c, core_by_lift[c], RowsOfCluster(c), FreqKey, cfg3.CORE_TOP_K)

\* one cluster takes the eligible branch, leaving out an eligible and an
\* ineligible item and differing from the frequency list, while another
\* cluster takes the fallback
C2_Witness ==
  /\ pc3 = "core"
  /\ \E c \in DOMAIN core_by_lift :
       /\ Cardinality(EligibleRows(c)) > cfg3.CORE_TOP_K
       /\ EligibleRows(c) # RowsOfCluster(c)
       /\ core_by_lift[c] # core_by_freq[c]
  /\ \E c \in DOMAIN core_by_lift :
       /\ EligibleRows(c) = {}
       /\ Cardinality(RowsOfCluster(c)) > cfg3.CORE_TOP_K

\* C3 as stated: lift is a finite number >= 0 and is 0 exactly when the
\* item's overall_rate is 0.
C3_LiftZeroIffOverallZero ==
  \A i \in DOMAIN stats_df :
    /\ IsNum(stats_df[i].lift)
    /\ stats_df[i].lift[2] >= 0 /\ stats_df[i].lift[3] > 0
    /\ (stats_df[i].lift[2] = 0 <=> stats_df[i].overall_rate[1] = 0)

\* C3 (amended): lift is a finite number >= 0 and is 0 exactly when the item
\* does not occur in the cluster (cluster_count = 0), which covers
\* overall_rate = 0.
C3_LiftZeroIffAbsentFromCluster ==
  \A i \in DOMAIN stats_df :
    /\ IsNum(stats_df[i].lift)
    /\ stats_df[i].lift[2] >= 0 /\ stats_df[i].lift[3] > 0
    /\ (stats_df[i].lift[2] = 0 <=> stats_df[i].cluster_count = 0)
    /\ (stats_df[i].overall_rate[1] = 0 => stats_df[i].lift[2] = 0)

\* a row with overall_rate > 0 and lift 0 beside a row with lift > 1
C3_Witness ==
  /\ \E i \in DOMAIN stats_df :
       stats_df[i].overall_rate[1] > 0 /\ stats_df[i].lift[2] = 0
  /\ \E i \in DOMAIN stats_df : stats_df[i].lift[2] > stats_df[i].lift[3]

RECURSIVE SumClusterCount(_, _)
SumClusterCount(df, it) ==
  IF df = <<>> THEN 0
  ELSE (IF df[1].item = it THEN df[1].cluster_count ELSE 0)
       + SumClusterCount(Tail(df), it)

\* C4: for every column, the cluster_count values summed over the clusters
\* equal the item's overall_count, which is the column's number of ones and
\* is the same in every cluster's row.
C4_ClusterCountsSumToOverall ==
  pc3 \in {"stats", "core"} =>
    \A j \in Range(Columns(mat)) :
      /\ \E r \in Range(stats_df) : r.item = Items[j]
      /\ SumClusterCount(stats_df, Items[j]) = Cardinality({i \in DOMAIN mat : j \in mat[i]})
      /\ \A r \in Range(stats_df) :
           r.item = Items[j] => r.overall_count = SumClusterCount(stats_df, Items[j])

\* an item counted in two clusters
C4_Witness ==
  /\ pc3 = "stats"
  /\ \E r1, r2 \in Range(stats_df) :
       /\ r1.item = r2.item /\ r1.cluster # r2.cluster
       /\ r1.cluster_count > 0 /\ r2.cluster_count > 0

\* ================================================================== 02_cooccurrence.py
\* ------------------------------------------------------------------ 02: the database
MatchIds == {1, 2, 3}
RoundIdx == {1, 2}
Slots == MatchIds \X RoundIdx

\* battles.rounds has the primary key (match_id, round_index), battles.round_items
\* the key (match_id, round_index, item_name); the ingest writes item rows only
\* for rounds it writes.  A rounds row is <<match_id, round_index>>, an item row
\* <<match_id, round_index, item_name>>.
ItemRowsOf(R) == {<<sl[1], sl[2], Items[i]>> : sl \in R, i \in ItemIdx}
RoundsTables == {R \in SUBSET Slots : Cardinality(R) <= MaxRoundRows}

\* SCOPE, TOPN, MIN_PAIR_COUNT
Configs2 == [SCOPE : {"final", "topn"}, TOPN : {2}, MIN_PAIR_COUNT : {1, 2}]

\* ------------------------------------------------------------------ 02: SQL values
Null == <<"null", 0, 1>>
RMul(a, b) == <<a[1] * b[1], a[2] * b[2]>>
RDiv(a, b) == <<a[1] * b[2], a[2] * b[1]>>
RECURSIVE GCD(_, _)
GCD(a, b) == IF b = 0 THEN a ELSE GCD(b, a % b)
Reduce(r) == LET g == GCD(r[1], r[2]) IN <<r[1] \div g, r[2] \div g>>

\* item_name < item_name: the names of Items are listed in lexicographic order
IdxOf(name) == CHOOSE i \in ItemIdx : Items[i] = name
NameLt(x, y) == IdxOf(x) < IdxOf(y)

\* log2 of a positive rational, cut to quarters (the double the SQL function
\* returns is modelled to two binary places): exponent, then two squarings.
RECURSIVE Log2Exp(_)
Log2Exp(x) ==
  IF RLe(Rat(2, 1), x) THEN 1 + Log2Exp(<<x[1], 2 * x[2]>>)
  ELSE IF RLt(x, Rat(1, 1)) THEN Log2Exp(<<2 * x[1], x[2]>>) - 1
  ELSE 0
RECURSIVE Mantissa(_)
Mantissa(x) ==
  IF RLe(Rat(2, 1), x) THEN Mantissa(<<x[1], 2 * x[2]>>)
  ELSE IF RLt(x, Rat(1, 1)) THEN Mantissa(<<2 * x[1], x[2]>>)
  ELSE Reduce(x)
Log2Quarters(x) ==
  LET m == Mantissa(Reduce(x))
      y == Reduce(RMul(m, m))
      b1 == IF RLe(Rat(2, 1), y) THEN 1 ELSE 0
      y2 == IF b1 = 1 THEN Reduce(<<y[1], 2 * y[2]>>) ELSE y
      z == RMul(y2, y2)
      b2 == IF RLe(Rat(2, 1), z) THEN 1 ELSE 0
  IN 4 * Log2Exp(Reduce(x)) + 2 * b1 + b2
log2(x) == Rat(Log2Quarters(x), 4)

\* ------------------------------------------------------------------ 02: the query
\* last_round: SELECT match_id, MAX(round_index) ... GROUP BY match_id
last_round(d) ==
  {<<m, CHOOSE r \in RoundIdx :
          /\ <<m, r>> \in d.rounds
          /\ \A q \in RoundIdx : <<m, q>> \in d.rounds => q <= r>> :
     m \in {sl[1] : sl \in d.rounds}}

\* scope of SQL_FINAL_SCOPE: the item rows of each match's last round
scope_final(d) ==
  LET lrs == last_round(d)
  IN {ri \in d.round_items : \E lr \in lrs : lr[1] = ri[1] /\ ri[2] = lr[2]}

\* scope of SQL_TOPN_SCOPE: the item rows of each match's last n rounds
scope_topn(d, n) ==
  LET lrs == last_round(d)
  IN {ri \in d.round_items :
        \E lr \in lrs :
          lr[1] = ri[1] /\ ri[2] >= lr[2] - n + 1 /\ ri[2] <= lr[2]}

\* if SCOPE == "final": ... else: ...
scope(d, cfg) ==
  IF cfg.SCOPE = "final" THEN scope_final(d) ELSE scope_topn(d, cfg.TOPN)

\* universe: SELECT COUNT(DISTINCT match_id) AS M FROM scope
universe(sc) == Cardinality({ri[1] : ri \in sc})

\* pA, pB: SELECT item_name, COUNT(DISTINCT match_id) FROM scope GROUP BY item_name
pA(sc) == {[A |-> it, nA |-> Cardinality({ri[1] : ri \in {x \in sc : x[3] = it}})] :
             it \in {ri[3] : ri \in sc}}
pB(sc) == {[B |-> it, nB |-> Cardinality({ri[1] : ri \in {x \in sc : x[3] = it}})] :
             it \in {ri[3] : ri \in sc}}

\* the join condition of pairs, with <> written for <
JoinOn_NotEqual(s1, s2) == s1[1] = s2[1] /\ s1[3] # s2[3]
\* ON s1.match_id = s2.match_id AND s1.item_name < s2.item_name
JoinOn(s1, s2) == s1[1] = s2[1] /\ NameLt(s1[3], s2[3])

\* pairs: ... COUNT(DISTINCT s1.match_id) AS nAB ... GROUP BY 1,2
pairs(sc) ==
  LET joined == {<<s1, s2>> \in sc \X sc : JoinOn(s1, s2)}
      groups == {<<j[1][3], j[2][3]>> : j \in joined}
  IN {[A |-> g[1], B |-> g[2],
       nAB |-> Cardinality({j[1][1] : j \in {x \in joined : x[1][3] = g[1] /\ x[2][3] = g[2]}})] :
        g \in groups}

\* lift with the two marginals added in place of multiplied
LiftExpr_Sum(nAB, nA, nB, M) ==
  IF nA > 0 /\ nB > 0 /\ nAB > 0
  THEN Num(RDiv(Rat(nAB, M), <<nA * M + nB * M, M * M>>))
  ELSE Null
\* CASE WHEN pa.nA>0 AND pb.nB>0 AND pr.nAB>0
\*   THEN ((pr.nAB*1.0)/u.M) / ((pa.nA*1.0)/u.M * (pb.nB*1.0)/u.M) END
LiftExpr(nAB, nA, nB, M) ==
  IF nA > 0 /\ nB > 0 /\ nAB > 0
  THEN Num(RDiv(Rat(nAB, M), RDiv(RMul(Rat(nA, M), Rat(nB, 1)), Rat(M, 1))))
  ELSE Null

\* CASE WHEN ... THEN log2( ... ) END
PmiExpr(nAB, nA, nB, M) ==
  IF nA > 0 /\ nB > 0 /\ nAB > 0
  THEN Num(log2(RDiv(Rat(nAB, M), RDiv(RMul(Rat(nA, M), Rat(nB, 1)), Rat(M, 1)))))
  ELSE Null

\* the filter with > written for >=
Where_Strict(pr, min_pair_count) == pr.nAB > min_pair_count
\* WHERE pr.nAB >= ?
Where(pr, min_pair_count) == pr.nAB >= min_pair_count

\* SELECT ... FROM pairs pr JOIN pA pa ON pa.A = pr.A JOIN pB pb ON pb.B = pr.B
\*   CROSS JOIN universe u WHERE pr.nAB >= ?
selected(sc, min_pair_count) ==
  LET M == universe(sc)
      prs == pairs(sc)
      pas == pA(sc)
      pbs == pB(sc)
  IN {[A |-> t[1].A, B |-> t[1].B, nAB |-> t[1].nAB, nA |-> t[2].nA, nB |-> t[3].nB,
       M |-> M,
       pAB |-> Rat(t[1].nAB, M),
       pA |-> Rat(t[2].nA, M),
       pB |-> Rat(t[3].nB, M),
       lift |-> LiftExpr(t[1].nAB, t[2].nA, t[3].nB, M),
       pmi |-> PmiExpr(t[1].nAB, t[2].nA, t[3].nB, M)] :
        t \in {x \in prs \X pas \X pbs :
                 x[2].A = x[1].A /\ x[3].B = x[1].B /\ Where(x[1], min_pair_count)}}

\* ORDER BY pmi DESC, lift DESC, nAB DESC (a NULL sorts last)
OrderKey(row) ==
  <<Rat(IF row.pmi = Null THEN 0 ELSE 1, 1),
    IF row.pmi = Null THEN Rat(0, 1) ELSE RatOf(row.pmi),
    Rat(IF row.lift = Null THEN 0 ELSE 1, 1),
    IF row.lift = Null THEN Rat(0, 1) ELSE RatOf(row.lift),
    Rat(row.nAB, 1)>>

\* The orders ORDER BY may return the rows in: every arrangement in which no
\* row follows a row of smaller key.  Rows of equal key have no defined order.
OrderBy(rows) ==
  {s \in [1..Cardinality(rows) -> rows] :
     /\ \A i, j \in DOMAIN s : i # j => s[i] # s[j]
     /\ \A i, j \in DOMAIN s : i < j => ~KeyGt(OrderKey(s[j]), OrderKey(s[i]))}

\* con.execute(SQL_FINAL_SCOPE, [MIN_PAIR_COUNT]).df() and its TOPN variant
QueryResults(d, cfg) == OrderBy(selected(scope(d, cfg), cfg.MIN_PAIR_COUNT))

\* ------------------------------------------------------------------ 02: the script
Idle3 ==
  /\ pc3 = "off"
  /\ mat = <<>>
  /\ labels = <<>>
  /\ cfg3 = NoConfig
  /\ stats_df = <<>>
  /\ core_by_lift = <<>>
  /\ core_by_freq = <<>>

Init2 ==
  /\ Idle3
  /\ Idle5
  /\ IdleM
  /\ IdleR
  /\ IdleI
  /\ pc2 = "never"
  /\ \E R \in RoundsTables : \E I \in SUBSET ItemRowsOf(R) :
       db = [rounds |-> R, round_items |-> I]
  /\ cfg2 \in Configs2
  /\ cooc_csv = <<>>
  /\ cooc_prev = <<>>

\* one run of the script: df = con.execute(...).df(); df.to_csv(csv_path)
RunCooccurrence ==
  /\ pc2 = "never"
  /\ \E df \in QueryResults(db, cfg2) : cooc_csv' = df
  /\ pc2' = "once"
  /\ UNCHANGED <<db, cfg2, cooc_prev>>
  /\ UNCHANGED <<vars3, vars5, varsM, varsR, varsI>>

\* the script run again on the unchanged database with the same CONFIG
RerunCooccurrence ==
  /\ pc2 = "once"
  /\ \E df \in QueryResults(db, cfg2) : cooc_csv' = df
  /\ cooc_prev' = cooc_csv
  /\ pc2' = "twice"
  /\ UNCHANGED <<db, cfg2>>
  /\ UNCHANGED <<vars3, vars5, varsM, varsR, varsI>>

Next2 == RunCooccurrence \/ RerunCooccurrence

SpecCooc == Init2 /\ [][Next2]_vars

\* ------------------------------------------------------------------ 02: properties
ScopeNow == scope(db, cfg2)
\* the number of matches carrying both items in the scope sc
CoCount(sc, x, y) ==
  Cardinality({m \in MatchIds : <<m, x>> \in sc /\ <<m, y>> \in sc})
\* the scope as (match, item) pairs
Carried == {<<ri[1], ri[3]>> : ri \in ScopeNow}
ClaimKey(row) == <<RatOf(row.pmi), RatOf(row.lift), Rat(row.nAB, 1)>>

\* C7: the script run twice on the unchanged database with the same CONFIG
\* writes the same rows in the same order.
C7_RerunWritesSameTable ==
  pc2 = "twice" => cooc_csv = cooc_prev

\* C8: in every output row A < B, no pair of items has a second row in either
\* order, and nAB <= min(nA, nB) <= M, M being the number of distinct matches
\* with an item in scope.
C8_PairsCanonicalAndBounded ==
  pc2 # "never" =>
    /\ LET M == Cardinality({p[1] : p \in Carried}) IN
       \A i \in DOMAIN cooc_csv :
         /\ NameLt(cooc_csv[i].A, cooc_csv[i].B)
         /\ cooc_csv[i].nAB <= cooc_csv[i].nA
         /\ cooc_csv[i].nAB <= cooc_csv[i].nB
         /\ cooc_csv[i].nA <= cooc_csv[i].M
         /\ cooc_csv[i].nB <= cooc_csv[i].M
         /\ cooc_csv[i].M = M
    /\ \A i, j \in DOMAIN cooc_csv :
         i # j => {cooc_csv[i].A, cooc_csv[i].B} # {cooc_csv[j].A, cooc_csv[j].B}

\* under the topn scope, with an item carried in two rounds of one match, a
\* row has nAB < nA
C8_Witness ==
  /\ pc2 = "once"
  /\ cfg2.SCOPE = "topn"
  /\ \E r1, r2 \in ScopeNow : r1[1] = r2[1] /\ r1[3] = r2[3] /\ r1[2] # r2[2]
  /\ \E i \in DOMAIN cooc_csv : cooc_csv[i].nAB < cooc_csv[i].nA

\* C9: the output holds exactly the pairs of distinct items carried together
\* by at least MIN_PAIR_COUNT matches of the scope, and no row is followed by
\* a row of greater (pmi, lift, nAB).
C9_ExactPairsInOrder ==
  pc2 # "never" =>
    /\ LET sc == Carried IN
         /\ {<<cooc_csv[i].A, cooc_csv[i].B>> : i \in DOMAIN cooc_csv}
              = {p \in ItemNames \X ItemNames :
                   NameLt(p[1], p[2]) /\ CoCount(sc, p[1], p[2]) >= cfg2.MIN_PAIR_COUNT}
         /\ \A i \in DOMAIN cooc_csv :
              cooc_csv[i].nAB = CoCount(sc, cooc_csv[i].A, cooc_csv[i].B)
    /\ \A i \in 1..(Len(cooc_csv) - 1) :
         ~KeyGt(ClaimKey(cooc_csv[i + 1]), ClaimKey(cooc_csv[i]))

\* with MIN_PAIR_COUNT 2, several rows of which the first ranks strictly above
\* the last
C9_Witness ==
  /\ pc2 = "once"
  /\ cfg2.MIN_PAIR_COUNT = 2
  /\ Len(cooc_csv) >= 2
  /\ KeyGt(ClaimKey(cooc_csv[1]), ClaimKey(cooc_csv[Len(cooc_csv)]))

\* C10: in every output row lift is not null and is pAB / (pA * pB)
\* = nAB * M / (nA * nB) with pA = nA/M, pB = nB/M, pAB = nAB/M; nA=40, nB=30,
\* nAB=20, M=100 gives 5/3; and pmi >= 0 exactly when lift >= 1.
C10_LiftAndPmi ==
  /\ REq(RatOf(LiftExpr(20, 40, 30, 100)), Rat(5, 3))
  /\ pc2 # "never" =>
       \A i \in DOMAIN cooc_csv :
         LET r == cooc_csv[i] IN
           /\ IsNum(r.lift) /\ IsNum(r.pmi)
           /\ REq(r.pA, Rat(r.nA, r.M)) /\ REq(r.pB, Rat(r.nB, r.M))
           /\ REq(r.pAB, Rat(r.nAB, r.M))
           /\ REq(RatOf(r.lift), RDiv(r.pAB, RMul(r.pA, r.pB)))
           /\ REq(RatOf(r.lift), Rat(r.nAB * r.M, r.nA * r.nB))
           /\ (RLe(Rat(0, 1), RatOf(r.pmi)) <=> RLe(Rat(1, 1), RatOf(r.lift)))

\* a row with lift > 1 and pmi > 0 beside a row with lift < 1 and pmi < 0
C10_Witness ==
  /\ pc2 = "once"
  /\ \E i \in DOMAIN cooc_csv :
       RLt(Rat(1, 1), RatOf(cooc_csv[i].lift)) /\ RLt(Rat(0, 1), RatOf(cooc_csv[i].pmi))
  /\ \E i \in DOMAIN cooc_csv :
       RLt(RatOf(cooc_csv[i].lift), Rat(1, 1)) /\ RLt(RatOf(cooc_csv[i].pmi), Rat(0, 1))

\* ================================================================== 05_build_variations.py
\* ------------------------------------------------------------------ 05: config
MIN_CLUSTER_RATE == Rat(2, 25)           \* 0.08
MIN_RATE_ADV == Rat(-1, 100)             \* -0.01
MIN_LIFT == Rat(3, 2)                    \* 1.5
MIN_PMI == Rat(1, 2)                     \* 0.5
MAX_VARIATIONS_PER_CLUSTER == 40
CORE_PREFIX_SIZE == 4

\* ------------------------------------------------------------------ 05: inputs
Clusters5 == {0, 1}
CoreLists == {<<>>, <<"a">>}
CoreLookups == UNION {[S -> CoreLists] : S \in SUBSET Clusters5}

\* the columns of the statistics table that build_variations reads
StatKinds ==
  {[cluster_rate |-> Rat(1, 20), rate_advantage |-> Rat(0, 1)],
   [cluster_rate |-> Rat(1, 2), rate_advantage |-> Rat(-1, 10)],
   [cluster_rate |-> Rat(1, 1), rate_advantage |-> Rat(1, 2)]}
StatsTables ==
  {<<>>} \cup
  {[i \in ItemIdx |-> [cluster |-> 0, item |-> Items[i],
                       cluster_rate |-> k[i].cluster_rate,
                       rate_advantage |-> k[i].rate_advantage]] :
     k \in [ItemIdx -> StatKinds]}

\* rows of the co-occurrence table, in either order of the two items
PairQualities ==
  {[lift |-> Rat(2, 1), pmi |-> Rat(1, 1)], [lift |-> Rat(1, 1), pmi |-> Rat(0, 1)]}
PairRows ==
  {[A |-> p[1], B |-> p[2], lift |-> q.lift, pmi |-> q.pmi, nAB |-> 20] :
     p \in {x \in ItemNames \X ItemNames : x[1] # x[2]}, q \in PairQualities}
PairTables == UNION {[1..n -> PairRows] : n \in 0..MaxPairs}

\* ------------------------------------------------------------------ 05: Python values
PyInt(n) == <<"int", n>>
PyStr(x) == <<"str", x>>

\* x < y: "raise" is the TypeError of comparing an int with a str
PyLt(x, y) ==
  IF x[1] # y[1] THEN "raise"
  ELSE IF x[1] = "int" THEN (IF x[2] < y[2] THEN "true" ELSE "false")
  ELSE (IF NameLt(x[2], y[2]) THEN "true" ELSE "false")

\* insertion of x into a sorted list, comparing from the right
RECURSIVE PyInsert(_, _)
PyInsert(sorted, x) ==
  IF sorted = <<>> THEN [ok |-> TRUE, val |-> <<x>>]
  ELSE LET last == sorted[Len(sorted)]
           c == PyLt(x, last)
       IN IF c = "raise" THEN [ok |-> FALSE, val |-> <<>>]
          ELSE IF c = "true"
          THEN LET r == PyInsert(SubSeq(sorted, 1, Len(sorted) - 1), x)
               IN IF r.ok THEN [ok |-> TRUE, val |-> Append(r.val, last)] ELSE r
          ELSE [ok |-> TRUE, val |-> Append(sorted, x)]

\* sorted(...): ok is FALSE when a comparison raised
RECURSIVE PySorted(_)
PySorted(s) ==
  IF s = <<>> THEN [ok |-> TRUE, val |-> <<>>]
  ELSE LET prev == PySorted(SubSeq(s, 1, Len(s) - 1))
       IN IF prev.ok THEN PyInsert(prev.val, s[Len(s)]) ELSE prev

\* tuple(sorted({...})) of item names
SortedNames(S) == [k \in DOMAIN SortedSeq({IdxOf(x) : x \in S}) |->
                     Items[SortedSeq({IdxOf(x) : x \in S})[k]]]

RAdd(a, b) == <<a[1] * b[2] + b[1] * a[2], a[2] * b[2]>>

\* ------------------------------------------------------------------ 05: build_variations
\* grouped_stats.get(cluster): the rows of the cluster, <<>> for None
grouped_stats(st, cluster) == SelectSeq(st, LAMBDA r : r.cluster = cluster)

\* candidates = set(stats[candidate_mask].index.astype(str))
candidates(cst) ==
  {r.item : r \in {x \in Range(cst) :
                     /\ RLe(MIN_CLUSTER_RATE, x.cluster_rate)
                     /\ RLe(MIN_RATE_ADV, x.rate_advantage)}}

\* pair_lookup[item]: every row is appended under its A and under its B
RECURSIVE pair_lookup(_, _)
pair_lookup(pdf, item) ==
  IF pdf = <<>> THEN <<>>
  ELSE (IF pdf[1].A = item THEN <<pdf[1]>> ELSE <<>>)
       \o (IF pdf[1].B = item THEN <<pdf[1]>> ELSE <<>>)
       \o pair_lookup(Tail(pdf), item)

\* for item in candidates: for pair in pair_lookup.get(item, []): the pairs in
\* the order they are visited, the set being iterated in the order `order`
RECURSIVE Visits(_, _, _)
Visits(order, cands, pdf) ==
  IF order = <<>> THEN <<>>
  ELSE (IF order[1] \in cands THEN pair_lookup(pdf, order[1]) ELSE <<>>)
       \o Visits(Tail(order), cands, pdf)

\* stats.at[item, "cluster_rate"]
StatAt(cst, item) == (CHOOSE r \in Range(cst) : r.item = item).cluster_rate

\* the Variation built for a pair
MakeVariation(cluster, pair, cst, core_set) ==
  LET a == pair.A
      b == pair.B
      rate_a == StatAt(cst, a)
      rate_b == StatAt(cst, b)
  IN [cluster |-> cluster,
      variation_type |->
        IF a \in core_set /\ b \in core_set THEN "core-pair"
        ELSE IF a \in core_set \/ b \in core_set THEN "core+flex"
        ELSE "flex-pair",
      anchor |->
        IF a \in core_set /\ b \in core_set THEN SortedNames({a, b})
        ELSE IF a \in core_set \/ b \in core_set
        THEN SortedNames(IF a \in core_set THEN {a} ELSE {b})
        ELSE <<>>,
      items |-> SortedNames({a, b}),
      lift |-> pair.lift, pmi |-> pair.pmi, nAB |-> pair.nAB,
      cluster_rate_a |-> rate_a, cluster_rate_b |-> rate_b,
      score |-> RMul(RMul(pair.lift, pair.pmi), RDiv(RAdd(rate_a, rate_b), Rat(2, 1)))]

\* the body of the two inner loops; acc.ok turns FALSE when a statement raises
RECURSIVE Walk(_, _, _, _, _, _)
Walk(visits, cluster, cands, cst, core_set, acc) ==
  IF visits = <<>> \/ ~acc.ok THEN acc
  ELSE
    LET pair == visits[1]
        rest == Tail(visits)
    IN IF ~({pair.A, pair.B} \subseteq cands)
       THEN Walk(rest, cluster, cands, cst, core_set, acc)
       ELSE
         LET key == PySorted(<<PyInt(cluster), PyStr(pair.A), PyStr(pair.B)>>)
         IN IF ~key.ok THEN [acc EXCEPT !.ok = FALSE]
            ELSE IF key.val \in acc.seen_pairs
            THEN Walk(rest, cluster, cands, cst, core_set, acc)
            ELSE
              LET acc1 == [acc EXCEPT !.seen_pairs = @ \cup {key.val}]
              IN IF RLt(pair.lift, MIN_LIFT) \/ RLt(pair.pmi, MIN_PMI)
                 THEN Walk(rest, cluster, cands, cst, core_set, acc1)
                 ELSE Walk(rest, cluster, cands, cst, core_set,
                           [acc1 EXCEPT !.cluster_variations =
                              Append(@, MakeVariation(cluster, pair, cst, core_set))])

\* one pass of the loop over core_lookup.items()
ClusterPass(cluster, core_items, st, pdf, order) ==
  LET cst == grouped_stats(st, cluster)
      empty == [ok |-> TRUE, seen_pairs |-> {}, cluster_variations |-> <<>>]
  IN IF cst = <<>> \/ candidates(cst) = {}
     THEN [skipped |-> TRUE, ok |-> TRUE, kept |-> <<>>]
     ELSE
       LET acc == Walk(Visits(order, candidates(cst), pdf), cluster,
                       candidates(cst), cst, Range(core_items), empty)
           ranked == Unkey(SortValuesDesc(
                       [i \in DOMAIN acc.cluster_variations |->
                          [key |-> <<acc.cluster_variations[i].score>>,
                           row |-> acc.cluster_variations[i]]]))
       IN [skipped |-> FALSE, ok |-> acc.ok,
           kept |-> Head_n(ranked, MAX_VARIATIONS_PER_CLUSTER)]

\* for cluster in sorted(variations_by_cluster): all_variations.extend(...)
RECURSIVE ExtendAll(_, _)
ExtendAll(passes, cs) ==
  IF cs = <<>> THEN <<>>
  ELSE (IF passes[cs[1]].skipped THEN <<>> ELSE passes[cs[1]].kept)
       \o ExtendAll(passes, Tail(cs))

\* build_variations(core_lookup, stats_df, pairs_df), the sets of candidates
\* being iterated in the orders `orders`
build_variations(cl, st, pdf, orders) ==
  LET passes == [c \in DOMAIN cl |-> ClusterPass(c, cl[c], st, pdf, orders[c])]
  IN IF \E c \in DOMAIN cl : ~passes[c].ok
     THEN [status |-> "TypeError", variations |-> <<>>]
     ELSE [status |-> "ok", variations |-> ExtendAll(passes, SortedSeq(DOMAIN cl))]

\* the orders a set of item names may be iterated in
IterationOrders ==
  {o \in [ItemIdx -> ItemNames] : \A i, j \in ItemIdx : i # j => o[i] # o[j]}

\* ------------------------------------------------------------------ 05: main
\* round(x, 4), to the nearest ten-thousandth, a tie to the even one
Round4(r) ==
  LET n == r[1] * 10000
      q == n \div r[2]
      twice == 2 * (n - q * r[2])
  IN Rat(IF twice > r[2] \/ (twice = r[2] /\ q % 2 = 1) THEN q + 1 ELSE q, 10000)

\* the rank of variation i among those of its cluster: enumerate(..., start=1)
RankOf(vs, i) == Cardinality({j \in 1..i : vs[j].cluster = vs[i].cluster})

\* Variation.to_dict(core_preview, rank)
to_dict(v, core_preview, rank) ==
  [cluster |-> v.cluster, rank |-> rank, base_core_preview |-> core_preview,
   variation_type |-> v.variation_type, anchor_items |-> v.anchor,
   variation_items |-> v.items, lift |-> Round4(v.lift), pmi |-> Round4(v.pmi),
   pair_matches |-> v.nAB, cluster_rate_a |-> Round4(v.cluster_rate_a),
   cluster_rate_b |-> Round4(v.cluster_rate_b), score |-> Round4(v.score)]

Init5 ==
  /\ Idle2
  /\ Idle3
  /\ IdleR
  /\ IdleI
  /\ IdleM
  /\ pc5 = "loaded"
  /\ core_lookup \in CoreLookups
  /\ stats5 \in StatsTables
  /\ pairs_df \in PairTables
  /\ bv_result = [status |-> "none", variations |-> <<>>]
  /\ out_rows = <<>>

\* variations = build_variations(core_lookup, stats_df, pairs_df)
BuildVariations ==
  /\ pc5 = "loaded"
  /\ \E orders \in [DOMAIN core_lookup -> IterationOrders] :
       bv_result' = build_variations(core_lookup, stats5, pairs_df, orders)
  /\ pc5' = IF bv_result'.status = "ok" THEN "built" ELSE "raised"
  /\ UNCHANGED <<core_lookup, stats5, pairs_df, out_rows>>
  /\ UNCHANGED <<vars2, vars3, varsM, varsR, varsI>>

\* rows.append(var.to_dict(...)); out_df.to_csv(OUT_PATH)
WriteVariations ==
  /\ pc5 = "built"
  /\ out_rows' =
       [i \in DOMAIN bv_result.variations |->
          to_dict(bv_result.variations[i],
                  Head_n(core_lookup[bv_result.variations[i].cluster], CORE_PREFIX_SIZE),
                  RankOf(bv_result.variations, i))]
  /\ out_file' = "written"
  /\ pc5' = "written"
  /\ UNCHANGED <<core_lookup, stats5, pairs_df, bv_result, inputs5>>
  /\ UNCHANGED <<vars2, vars3, varsR, varsI>>

Next5 == BuildVariations \/ WriteVariations

SpecVar == Init5 /\ [][Next5]_vars

\* ------------------------------------------------------------------ 05: main, from the files
\* a cell of the core_items_lift column: the text of a Python list, or text
\* that ast.literal_eval rejects (an empty cell reads as nan)
CoreCells ==
  {[text |-> "list", val |-> l] : l \in CoreLists} \cup {[text |-> "nan", val |-> <<>>]}
CoreFiles == UNION {[S -> CoreCells] : S \in SUBSET Clusters5}
StatsFiles == StatsTables
\* a row of the co-occurrence file; lift is a number or an empty cell
PairFileRows ==
  UNION {{[A |-> r.A, B |-> r.B, lift |-> l, pmi |-> Num(r.pmi), nAB |-> r.nAB] :
            l \in {Num(r.lift), NaN}} : r \in PairRows}
PairFiles == UNION {[1..n -> PairFileRows] : n \in 0..1}
\* what an earlier run left in OUT_PATH
OldRows == <<[cluster |-> 0, rank |-> 1]>>

\* try: ast.literal_eval(...) except (SyntaxError, ValueError): core_items = []
literal_eval(cell) == IF cell.text = "list" THEN cell.val ELSE <<>>
_load_core_items(file) == [c \in DOMAIN file |-> literal_eval(file[c])]
\* df["cluster"].astype(int): the column read_csv gives is of integers already
_load_cluster_stats(file) == file
\* pd.to_numeric(..., errors="coerce"); df.dropna(subset=["lift", "pmi"])
_load_pairs(file) ==
  LET kept == SelectSeq(file, LAMBDA r : IsNum(r.lift) /\ IsNum(r.pmi))
  IN [i \in DOMAIN kept |->
        [A |-> kept[i].A, B |-> kept[i].B, lift |-> RatOf(kept[i].lift),
         pmi |-> RatOf(kept[i].pmi), nAB |-> kept[i].nAB]]

\* the check passing when any one of the three files exists
InputsPresent_Any(inp) ==
  inp.core.exists \/ inp.stats.exists \/ inp.cooc.exists
\* os.path.exists(DB_CLUSTER_CORE) and os.path.exists(DB_CLUSTER_STATS) and
\* os.path.exists(DB_COOC)
InputsPresent(inp) ==
  inp.core.exists /\ inp.stats.exists /\ inp.cooc.exists

InitM ==
  /\ Idle2
  /\ Idle3
  /\ IdleR
  /\ IdleI
  /\ pc5 = "start"
  /\ inputs5 \in [core : {File(f) : f \in CoreFiles} \cup {Missing},
                  stats : {File(f) : f \in StatsFiles} \cup {Missing},
                  cooc : {File(f) : f \in PairFiles} \cup {Missing}]
  /\ out_file \in {"absent", "old"}
  /\ out_rows = IF out_file = "old" THEN OldRows ELSE <<>>
  /\ core_lookup = <<>>
  /\ stats5 = <<>>
  /\ pairs_df = <<>>
  /\ bv_result = [status |-> "none", variations |-> <<>>]

\* main, up to the three loads: raise SystemExit when an input is missing;
\* pd.read_csv of a file that does not exist raises FileNotFoundError
LoadInputs ==
  /\ pc5 = "start"
  /\ IF ~InputsPresent(inputs5)
     THEN /\ pc5' = "aborted"
          /\ UNCHANGED <<core_lookup, stats5, pairs_df>>
     ELSE IF ~inputs5.core.exists
     THEN /\ pc5' = "raised"
          /\ UNCHANGED <<core_lookup, stats5, pairs_df>>
     ELSE IF ~inputs5.stats.exists
     THEN /\ pc5' = "raised"
          /\ core_lookup' = _load_core_items(inputs5.core.rows)
          /\ UNCHANGED <<stats5, pairs_df>>
     ELSE IF ~inputs5.cooc.exists
     THEN /\ pc5' = "raised"
          /\ core_lookup' = _load_core_items(inputs5.core.rows)
          /\ stats5' = _load_cluster_stats(inputs5.stats.rows)
          /\ UNCHANGED pairs_df
     ELSE /\ pc5' = "loaded"
          /\ core_lookup' = _load_core_items(inputs5.core.rows)
          /\ stats5' = _load_cluster_stats(inputs5.stats.rows)
          /\ pairs_df' = _load_pairs(inputs5.cooc.rows)
  /\ UNCHANGED <<bv_result, out_rows, inputs5, out_file>>
  /\ UNCHANGED <<vars2, vars3, varsR, varsI>>

NextM == LoadInputs \/ BuildVariations \/ WriteVariations

SpecMain == InitM /\ [][NextM]_vars

\* ------------------------------------------------------------------ 05: properties
\* the candidate items of a cluster
CandidateItems(c) ==
  {r.item : r \in {x \in Range(stats5) :
                     /\ x.cluster = c
                     /\ RLe(Rat(2, 25), x.cluster_rate)
                     /\ RLe(Rat(-1, 100), x.rate_advantage)}}
\* the pairs of the table with both items candidates of the cluster
PairsAmongCandidates(c) ==
  {p \in Range(pairs_df) : {p.A, p.B} \subseteq CandidateItems(c)}
\* ... that also pass MIN_LIFT and MIN_PMI, as sets of two items
QualifyingPairs(c) ==
  {{p.A, p.B} : p \in {x \in PairsAmongCandidates(c) :
                         RLe(Rat(3, 2), x.lift) /\ RLe(Rat(1, 2), x.pmi)}}
VariationPairs(c) ==
  {Range(v.items) : v \in {x \in Range(bv_result.variations) : x.cluster = c}}
ClustersWithStats == {c \in DOMAIN core_lookup : \E r \in Range(stats5) : r.cluster = c}

\* C5: the call completes, and for every cluster with core items and
\* statistics the variations are built only from the qualifying pairs of the
\* cluster's candidates and, unless truncated, from all of them.
C5_CompletesWithQualifyingPairs ==
  pc5 # "loaded" =>
    /\ bv_result.status = "ok"
    /\ \A c \in ClustersWithStats :
         /\ VariationPairs(c) \subseteq QualifyingPairs(c)
         /\ (Cardinality(QualifyingPairs(c)) <= MAX_VARIATIONS_PER_CLUSTER
               => VariationPairs(c) = QualifyingPairs(c))

ClaimedType(items, core) ==
  IF Cardinality(items \cap core) = 2 THEN "core-pair"
  ELSE IF Cardinality(items \cap core) = 1 THEN "core+flex"
  ELSE "flex-pair"
SomeQualifyingPair == \E c \in ClustersWithStats : QualifyingPairs(c) # {}

ClaimedScore(v) ==
  RMul(RMul(v.lift, v.pmi), RDiv(RAdd(v.cluster_rate_a, v.cluster_rate_b), Rat(2, 1)))
\* the positions of a cluster's variations in a list
PositionsOf(vs, c) == {i \in DOMAIN vs : vs[i].cluster = c}

C17_MissingInputAborts ==
  LET all3 == inputs5.core.exists /\ inputs5.stats.exists /\ inputs5.cooc.exists
  IN /\ (pc5 # "start" /\ ~all3) =>
          /\ pc5 = "aborted"
          /\ core_lookup = <<>> /\ stats5 = <<>> /\ pairs_df = <<>>
          /\ bv_result = [status |-> "none", variations |-> <<>>]
          /\ out_file \in {"absent", "old"}
          /\ out_rows = IF out_file = "old" THEN OldRows ELSE <<>>
     /\ (pc5 # "start" /\ all3) => pc5 \in {"loaded", "built", "raised", "written"}
     /\ (pc5 = "written" => out_file = "written")

\* main aborted with only the co-occurrence table missing and an output file
\* of an earlier run in place
C17_Witness ==
  /\ pc5 = "aborted"
  /\ inputs5.core.exists /\ inputs5.stats.exists /\ ~inputs5.cooc.exists
  /\ out_file = "old" /\ out_rows = OldRows

\* ================================================================== 03_reaper_clustering.py, from the database
\* ------------------------------------------------------------------ 03: the database and CONFIG
MatchIdsR == {1, 2, 3}
RunItems == {"a", "b"}
Results == {"win", "loss"}
\* a result that is NULL in battles.rounds, a label that is missing
NoneLabel == "None"

\* CLASS_REGEX: truthy is FALSE for None and for "", hits are the item names
\* pattern.search finds a match in
NoRegex == [truthy |-> FALSE, hits |-> {}]
Regex(hits) == [truthy |-> TRUE, hits |-> hits]

\* the rows of one match: its rounds 1..last, the earlier ones lost
MatchRows(m, last, res, fin, early) ==
  [rounds |-> {<<m, last, res>>} \cup {<<m, r, "loss">> : r \in 1..(last - 1)},
   round_items |-> {<<m, last, it>> : it \in fin}
                   \cup {<<m, r, it>> : r \in 1..(last - 1), it \in early}]
NoRows == [rounds |-> {}, round_items |-> {}]
\* the databases of three matches, the second of two rounds
MatchDataR(m) ==
  {NoRows} \cup
  {MatchRows(m, IF m = 2 THEN 2 ELSE 1, res, fin, early) :
     res \in Results \cup {NoneLabel}, fin \in SUBSET RunItems, early \in SUBSET {"a"}}
DbsR ==
  {[rounds |-> x1.rounds \cup x2.rounds \cup x3.rounds,
    round_items |-> x1.round_items \cup x2.round_items \cup x3.round_items] :
     x1 \in MatchDataR(1), x2 \in MatchDataR(2), x3 \in MatchDataR(3)}
\* the databases of two matches of one or two rounds, for the class filter
MatchDataF(m) ==
  {NoRows} \cup
  {MatchRows(m, last, res, fin, early) :
     last \in {1, 2}, res \in {"win", NoneLabel}, fin \in SUBSET ItemNames,
     early \in SUBSET {"a", "c"}}
DbsF ==
  {[rounds |-> x1.rounds \cup x2.rounds,
    round_items |-> x1.round_items \cup x2.round_items] :
     x1 \in MatchDataF(1), x2 \in MatchDataF(2)}

\* ------------------------------------------------------------------ 03: fetch_final_items
\* WITH last_round AS (SELECT match_id, MAX(round_index) ...) SELECT lr.match_id,
\* lr.last_r, r.result FROM last_round lr JOIN battles.rounds r ON ...
last_round_df(d) ==
  {[match_id |-> x[1], last_r |-> x[2], result |-> x[3]] :
     x \in {y \in d.rounds : \A z \in d.rounds : z[1] = y[1] => z[2] <= y[2]}}

\* SELECT ri.match_id, ri.item_name FROM battles.round_items ri
\* JOIN last_round lr USING (match_id) WHERE ri.round_index = lr.last_r
items_df(d) ==
  LET lrs == last_round_df(d)
  IN {[match_id |-> ri[1], item_name |-> ri[3]] :
        ri \in {x \in d.round_items :
                  \E lr \in lrs : lr.match_id = x[1] /\ lr.last_r = x[2]}}

\* SELECT DISTINCT match_id, item_name FROM battles.round_items
any_items(d) == {[match_id |-> ri[1], item_name |-> ri[3]] : ri \in d.round_items}

\* set(any_items[any_items["item_name"].apply(pattern.search)]["match_id"].unique())
reaper_matches(d, re) ==
  {x.match_id : x \in {y \in any_items(d) : y.item_name \in re.hits}}

\* the filter applied whenever a regex is set
UseFilter_Always(re, rm) == re.truthy
\* if class_regex: ... if len(reaper_matches) == 0: warn, else: filter
UseFilter(re, rm) == re.truthy /\ rm # {}

\* items_df.merge(last_round_df, on="match_id", how="inner")
merge(items, lrs) ==
  {[match_id |-> p[1].match_id, item_name |-> p[1].item_name,
    result |-> p[2].result, last_r |-> p[2].last_r] :
     p \in {q \in items \X lrs : q[1].match_id = q[2].match_id}}

fetch_final_items(d, re) ==
  LET rm == reaper_matches(d, re)
      lrs == last_round_df(d)
      its == items_df(d)
  IN [warned |-> re.truthy /\ rm = {},
      merged |-> IF UseFilter(re, rm)
                 THEN merge({x \in its : x.match_id \in rm},
                            {x \in lrs : x.match_id \in rm})
                 ELSE merge(its, lrs)]

\* ------------------------------------------------------------------ 03: build_matrix
\* the arrangements of counted rows in which no row follows one of a smaller
\* count; rows of equal count have no defined order
DescOrders(rows) ==
  {s \in [1..Cardinality(rows) -> rows] :
     /\ \A i, j \in DOMAIN s : i # j => s[i] # s[j]
     /\ \A i, j \in DOMAIN s : i < j => s[i].cnt >= s[j].cnt}

\* df["item_name"].value_counts(): the counts, most frequent first
value_counts(df) ==
  DescOrders({[item |-> it, cnt |-> Cardinality({r \in df : r.item_name = it})] :
                it \in {r.item_name : r \in df}})

\* the comparison with > written for >=
MeetsMinFreq_Strict(cnt, min_item_freq) == cnt > min_item_freq
\* freq >= min_item_freq
MeetsMinFreq(cnt, min_item_freq) == cnt >= min_item_freq

\* set(freq[freq >= min_item_freq].index[:max_items])
keep_items(fr, min_item_freq, max_items) ==
  {x.item : x \in Range(Head_n(SelectSeq(fr, LAMBDA x : MeetsMinFreq(x.cnt, min_item_freq)),
                               max_items))}

\* Series.reindex(index): the value at each label of index, None where the
\* series has no such label
reindex(series, index, missing) ==
  [i \in DOMAIN index |->
     IF index[i] \in DOMAIN series THEN series[index[i]] ELSE missing]

\* the greatest of a set of integers
Max(S) == CHOOSE x \in S : \A y \in S : y <= x

build_matrix(df, fr, min_item_freq, max_items) ==
  LET keep == keep_items(fr, min_item_freq, max_items)
      kept == {r \in df : r.item_name \in keep}
      ids == {r.match_id : r \in kept}
      index == SortedSeq(ids)
      \* pivot_table(index="match_id", columns="item_name", aggfunc="max", fill_value=0)
      m == [i \in DOMAIN index |->
              {IdxOf(r.item_name) : r \in {x \in kept : x.match_id = index[i]}}]
      \* groupby("match_id")["result"].agg(lambda s: s.iloc[0])
      res == [id \in ids |-> (CHOOSE r \in kept : r.match_id = id).result]
      \* groupby("match_id")["last_r"].max()
      lr == [id \in ids |-> Num(Rat(Max({r.last_r : r \in {x \in kept : x.match_id = id}}), 1))]
  IN [mat |-> m, index |-> index,
      result |-> reindex(res, index, NoneLabel),
      last_r |-> reindex(lr, index, NaN)]

\* the check left out
IsEmpty_Never(m) == FALSE
\* mat.empty
IsEmpty(m) == m = <<>>

\* SELECT item_name, COUNT(*) AS cnt FROM battles.round_items GROUP BY 1
\* ORDER BY cnt DESC LIMIT 25
sample_items(d) ==
  {Head_n(s, 25) :
     s \in DescOrders({[item |-> it,
                        cnt |-> Cardinality({ri \in d.round_items : ri[3] = it})] :
                         it \in {ri[3] : ri \in d.round_items}})}

\* ------------------------------------------------------------------ 03: the cluster summary
\* the values of a series at the rows idx, in ascending order
RECURSIVE SortedValues(_, _)
SortedValues(series, idx) ==
  IF idx = {} THEN <<>>
  ELSE LET lo == CHOOSE i \in idx : \A j \in idx : RLe(RatOf(series[i]), RatOf(series[j]))
       IN <<RatOf(series[lo])>> \o SortedValues(series, idx \ {lo})

\* Series.median(), NaN left out
median(series, idx) ==
  LET present == {i \in idx : IsNum(series[i])}
      vals == SortedValues(series, present)
      n == Len(vals)
  IN IF n = 0 THEN NaN
     ELSE IF n % 2 = 1 THEN Num(vals[(n + 1) \div 2])
     ELSE Num(RDiv(RAdd(vals[n \div 2], vals[n \div 2 + 1]), Rat(2, 1)))

\* result.loc[idx].eq("win").mean() * 100.0
winrate_pct(res, idx) ==
  IF idx = {} THEN NaN
  ELSE Num(Rat(100 * Cardinality({i \in idx : res[i] = "win"}), Cardinality(idx)))

\* the clusters that have a row
ClusterIds_Unique(l) == Range(l)
\* for c in range(K)
ClusterIds(l) == 0..(K - 1)

\* out_rows.append({...}) for one cluster
SummaryRow(c, l, res, lr) ==
  LET idx == {i \in DOMAIN l : l[i] = c}
      size == Cardinality(idx)
  IN [cluster |-> c, n_matches |-> size,
      winrate_pct |-> IF size > 0 THEN winrate_pct(res, idx) ELSE NaN,
      median_final_round |-> IF size > 0 THEN median(lr, idx) ELSE NaN]

\* pd.DataFrame(out_rows).sort_values(["winrate_pct", "n_matches"],
\* ascending=[False, False]): NaN sorts last
Summary(l, res, lr) ==
  LET cs == SortedSeq(ClusterIds(l))
      rows == [k \in DOMAIN cs |-> SummaryRow(cs[k], l, res, lr)]
  IN Unkey(SortValuesDesc([k \in DOMAIN rows |->
       [key |-> <<Rat(IF IsNum(rows[k].winrate_pct) THEN 1 ELSE 0, 1),
                  IF IsNum(rows[k].winrate_pct) THEN RatOf(rows[k].winrate_pct) ELSE Rat(0, 1),
                  Rat(rows[k].n_matches, 1)>>,
        row |-> rows[k]]]))

\* the CONFIG block of the script
CONFIG3 ==
  [CORE_TOP_K |-> 8, CORE_MIN_CLUSTER_RATE |-> Rat(3, 10), CORE_MIN_LIFT |-> Rat(6, 5),
   CORE_MIN_COUNT |-> 10, STAPLE_MAX_GLOBAL_RATE |-> Rat(13, 20)]

\* top_items_rows: for c in sorted(labels.unique())
top_items_rows(l, by_lift, by_freq) ==
  LET cs == SortedSeq(Range(l))
  IN [k \in DOMAIN cs |->
        [cluster |-> cs[k],
         core_items_lift |-> IF cs[k] \in DOMAIN by_lift THEN by_lift[cs[k]] ELSE <<>>,
         top_items_freq |-> IF cs[k] \in DOMAIN by_freq THEN by_freq[cs[k]] ELSE <<>>]]

\* ------------------------------------------------------------------ 03: the script from its start
\* a line of output, or the exception that ended the run
Event(kind, rows) == [kind |-> kind, rows |-> rows]

StartR ==
  /\ Idle2
  /\ Idle5
  /\ IdleM
  /\ IdleI
  /\ pc3 = "start"
  /\ mat = <<>>
  /\ labels = <<>>
  /\ cfg3 = NoConfig
  /\ stats_df = <<>>
  /\ core_by_lift = <<>>
  /\ core_by_freq = <<>>
  /\ df3 = {}
  /\ log3 = <<>>
  /\ freq = <<>>
  /\ mat_index = <<>>
  /\ result = <<>>
  /\ last_r = <<>>
  /\ summary = <<>>
  /\ files3 = <<>>

\* the script as configured (CLASS_REGEX = None), over the frequency settings
InitR ==
  /\ StartR
  /\ db3 \in DbsR
  /\ cfgR \in [CLASS_REGEX : {NoRegex}, MIN_ITEM_FREQ : {1, 2}, MAX_ITEMS : {1, 2}]

\* the class filter over its settings
InitF ==
  /\ StartR
  /\ db3 \in DbsF
  /\ cfgR \in [CLASS_REGEX : {NoRegex, [truthy |-> FALSE, hits |-> ItemNames],
                              Regex({}), Regex({"a"}), Regex({"c"})},
               MIN_ITEM_FREQ : {1}, MAX_ITEMS : {2}]

\* df = fetch_final_items(con, CLASS_REGEX)
FetchFinalItems ==
  /\ pc3 = "start"
  /\ LET got == fetch_final_items(db3, cfgR.CLASS_REGEX)
     IN /\ df3' = got.merged
        /\ log3' = IF got.warned THEN <<Event("WARN", <<>>)>> ELSE <<>>
  /\ pc3' = "fetched"
  /\ UNCHANGED <<db3, cfgR, freq, mat_index, result, last_r, summary, files3>>
  /\ UNCHANGED <<mat, labels, cfg3, stats_df, core_by_lift, core_by_freq>>
  /\ UNCHANGED <<vars2, vars5, varsM, varsI>>

\* if df.empty: print the most frequent item names; raise SystemExit
AbortNoData ==
  /\ pc3 = "fetched"
  /\ df3 = {}
  /\ \E s \in sample_items(db3) :
       log3' = log3 \o <<Event("ERROR no data", <<>>), Event("sample_items", s),
                         Event("SystemExit", <<>>)>>
  /\ pc3' = "aborted"
  /\ UNCHANGED <<db3, cfgR, df3, freq, mat_index, result, last_r, summary, files3>>
  /\ UNCHANGED <<mat, labels, cfg3, stats_df, core_by_lift, core_by_freq>>
  /\ UNCHANGED <<vars2, vars5, varsM, varsI>>

\* mat, result, last_r, freq = build_matrix(df, MIN_ITEM_FREQ, MAX_ITEMS);
\* if mat.empty: print freq.head(25); raise SystemExit
BuildMatrix ==
  /\ pc3 = "fetched"
  /\ df3 # {}
  /\ \E fr \in value_counts(df3) :
       LET bm == build_matrix(df3, fr, cfgR.MIN_ITEM_FREQ, cfgR.MAX_ITEMS)
       IN /\ freq' = fr
          /\ mat' = bm.mat
          /\ mat_index' = bm.index
          /\ result' = bm.result
          /\ last_r' = bm.last_r
          /\ IF IsEmpty(bm.mat)
             THEN /\ log3' = log3 \o <<Event("ERROR empty matrix", <<>>),
                                       Event("freq.head", Head_n(fr, 25)),
                                       Event("SystemExit", <<>>)>>
                  /\ pc3' = "aborted"
             ELSE /\ log3' = log3
                  /\ pc3' = "matrix"
  /\ UNCHANGED <<db3, cfgR, df3, summary, files3>>
  /\ UNCHANGED <<labels, cfg3, stats_df, core_by_lift, core_by_freq>>
  /\ UNCHANGED <<vars2, vars5, varsM, varsI>>

\* KMeans(n_clusters=K).fit_predict on at least K rows
KMeansFits ==
  /\ Len(mat) >= K
  /\ FitPredict

\* KMeans.fit_predict raises ValueError: n_samples should be >= n_clusters
KMeansRaises ==
  /\ pc3 = "matrix"
  /\ Len(mat) < K
  /\ log3' = log3 \o <<Event("ValueError", <<>>)>>
  /\ pc3' = "raised"
  /\ UNCHANGED <<db3, cfgR, df3, freq, mat_index, result, last_r, summary, files3>>
  /\ UNCHANGED <<mat, labels, cfg3, stats_df, core_by_lift, core_by_freq>>
  /\ UNCHANGED <<vars2, vars5, varsM, varsI>>

\* the rest of the script: the cluster summary, the item statistics, the core
\* items and the four to_csv
FinishRun ==
  /\ pc3 = "labels"
  /\ summary' = Summary(labels, result, last_r)
  /\ stats_df' = cluster_item_stats(mat, labels)
  /\ cfg3' = CONFIG3
  /\ core_by_lift' = result_lift(stats_df', CONFIG3)
  /\ core_by_freq' = result_freq(stats_df', CONFIG3)
  /\ files3' =
       [summary |-> summary',
        core_items |-> top_items_rows(labels, core_by_lift', core_by_freq'),
        assignment |-> [i \in DOMAIN labels |->
                          [match_id |-> mat_index[i], cluster |-> labels[i]]],
        item_stats |-> stats_df']
  /\ pc3' = "written"
  /\ UNCHANGED <<db3, cfgR, df3, log3, freq, mat_index, result, last_r>>
  /\ UNCHANGED <<mat, labels>>
  /\ UNCHANGED <<vars2, vars5, varsM, varsI>>

NextR ==
  FetchFinalItems \/ AbortNoData \/ BuildMatrix \/ KMeansFits \/ KMeansRaises \/ FinishRun

SpecRun == InitR /\ [][NextR]_vars

SpecFetch == InitF /\ [][FetchFinalItems]_vars


\* ------------------------------------------------------------------ 03: properties of the run
\* the number of rows of df carrying the item
CountIn(df, it) == Cardinality({r \in df : r.item_name = it})
\* the items that are columns of the matrix
KeptItems == {Items[j] : j \in Range(Columns(mat))}
\* the items occurring at least MIN_ITEM_FREQ times in the fetched rows
Meeting == {it \in ItemNames : CountIn(df3, it) >= cfgR.MIN_ITEM_FREQ}
\* build_matrix has returned
Built == pc3 \in {"matrix", "labels", "written", "raised"} \/ (pc3 = "aborted" /\ df3 # {})
\* X in 8, Y in 5, Z in 2 of 10 matches (a, b, c standing for X, Y, Z)
ExampleDf ==
  {[match_id |-> m, item_name |-> "a", result |-> "win", last_r |-> 1] : m \in 1..8}
  \cup {[match_id |-> m, item_name |-> "b", result |-> "win", last_r |-> 1] : m \in 6..10}
  \cup {[match_id |-> m, item_name |-> "c", result |-> "win", last_r |-> 1] : m \in 9..10}

\* C13: the columns of the matrix are items occurring at least MIN_ITEM_FREQ
\* times, as many of them as MAX_ITEMS allows, none dropped that occurs more
\* often than one kept; the rows are the matches carrying a kept item, each
\* once, in ascending order; a cell is 1 exactly when the match carries the
\* item.  X in 8, Y in 5, Z in 2 of 10 matches with min_item_freq 3 gives the
\* columns X, Y.
C13_MatrixOfFrequentItems ==
  /\ \A fr \in value_counts(ExampleDf) :
       /\ Columns(build_matrix(ExampleDf, fr, 3, 300).mat) = <<IdxOf("a"), IdxOf("b")>>
       /\ Len(build_matrix(ExampleDf, fr, 3, 300).mat) = 10
  /\ Built =>
       /\ KeptItems \subseteq Meeting
       /\ Cardinality(KeptItems) = Min2(cfgR.MAX_ITEMS, Cardinality(Meeting))
       /\ \A d \in Meeting \ KeptItems : \A k \in KeptItems :
            CountIn(df3, d) <= CountIn(df3, k)
       /\ Range(mat_index) = {r.match_id : r \in {x \in df3 : x.item_name \in KeptItems}}
       /\ DOMAIN mat = DOMAIN mat_index
       /\ \A i, j \in DOMAIN mat_index : i < j => mat_index[i] < mat_index[j]
       /\ \A i \in DOMAIN mat : \A j \in ItemIdx :
            j \in mat[i] <=>
              /\ Items[j] \in KeptItems
              /\ \E r \in df3 : r.match_id = mat_index[i] /\ r.item_name = Items[j]

\* MAX_ITEMS cuts off an item that is frequent enough and occurs less often
\* than the one kept, and a match carrying only that item has no row
C13_Witness ==
  /\ pc3 = "matrix"
  /\ \E d \in Meeting \ KeptItems : \E k \in KeptItems : CountIn(df3, d) < CountIn(df3, k)
  /\ \E r \in df3 : r.match_id \notin Range(mat_index)

\* a matrix row without a result label or without a final-round label
MissingLabel ==
  \E i \in DOMAIN mat : result[i] = NoneLabel \/ ~IsNum(last_r[i])

\* C14: the result labels, the final-round labels and the cluster labels have
\* the rows of the matrix as their index, and the run reaches the clustering
\* and the statistics only with every row labelled: a row without a label
\* ends the run with a DataInconsistency error.
C14_MissingLabelFails ==
  /\ pc3 \in {"matrix", "labels", "written", "raised"} =>
       DOMAIN result = DOMAIN mat /\ DOMAIN last_r = DOMAIN mat
  /\ pc3 \in {"labels", "written"} => DOMAIN labels = DOMAIN mat
  /\ (pc3 \in {"labels", "written"} /\ MissingLabel) =>
       log3 # <<>> /\ log3[Len(log3)].kind = "DataInconsistency"

\* rows is a report of the counts cnt(item) of the items, most frequent first
IsFrequencyReport(rows, items, cnt(_)) ==
  /\ {rows[i].item : i \in DOMAIN rows} = items
  /\ Len(rows) = Cardinality(items)
  /\ \A i \in DOMAIN rows : rows[i].cnt = cnt(rows[i].item)
  /\ \A i, j \in DOMAIN rows : i < j => rows[i].cnt >= rows[j].cnt
RawCount(it) == Cardinality({ri \in db3.round_items : ri[3] = it})
FetchedCount(it) == CountIn(df3, it)
\* the last n entries of a sequence
LastN(s, n) == SubSeq(s, Len(s) - n + 1, Len(s))
OutputTables == {"summary", "core_items", "assignment", "item_stats"}

\* C15: with no fetched row the run prints the item frequencies of the whole
\* round_items table and raises SystemExit; with no item frequent enough it
\* prints the item frequencies of the fetched rows and raises SystemExit; a
\* run that aborted never clustered and wrote none of the four tables, and
\* the run aborts in no other case.
C15_EmptyDataAborts ==
  /\ (pc3 \notin {"start", "fetched"} /\ df3 = {}) =>
       /\ pc3 = "aborted"
       /\ Len(log3) >= 3
       /\ LastN(log3, 3)[1].kind = "ERROR no data"
       /\ LastN(log3, 3)[2].kind = "sample_items"
       /\ IsFrequencyReport(LastN(log3, 3)[2].rows, {ri[3] : ri \in db3.round_items}, RawCount)
       /\ LastN(log3, 3)[3].kind = "SystemExit"
  /\ (pc3 \notin {"start", "fetched"} /\ df3 # {} /\ Meeting = {}) =>
       /\ pc3 = "aborted"
       /\ Len(log3) >= 3
       /\ LastN(log3, 3)[1].kind = "ERROR empty matrix"
       /\ LastN(log3, 3)[2].kind = "freq.head"
       /\ IsFrequencyReport(LastN(log3, 3)[2].rows, {r.item_name : r \in df3}, FetchedCount)
       /\ LastN(log3, 3)[3].kind = "SystemExit"
  /\ pc3 = "aborted" =>
       /\ df3 = {} \/ Meeting = {}
       /\ labels = <<>> /\ summary = <<>> /\ stats_df = <<>>
       /\ core_by_lift = <<>> /\ core_by_freq = <<>>
       /\ DOMAIN files3 = {}
  /\ pc3 \in {"start", "fetched", "matrix", "labels", "raised"} => DOMAIN files3 = {}
  /\ pc3 = "written" => DOMAIN files3 = OutputTables

\* the run aborted for want of rows in the final rounds, reporting the items
\* of the earlier rounds
C15_Witness ==
  /\ pc3 = "aborted"
  /\ df3 = {}
  /\ db3.round_items # {}
  /\ Len(log3[2].rows) >= 1

RECURSIVE SumMatches(_)
SumMatches(s) == IF s = <<>> THEN 0 ELSE s[1].n_matches + SumMatches(Tail(s))

\* C16: whatever the assignment of rows to clusters, the summary, the item
\* statistics and the core items are all defined for it and the run goes on
\* to write; the summary has one row per cluster id 0..K-1, n_matches is the
\* number of rows of the cluster and sums to the number of matrix rows, a
\* cluster without rows has n_matches 0 with win rate and median NaN, one with
\* rows has both defined; the item statistics cover exactly the clusters with
\* rows and each of these has core items.
C16_SummaryCoversEveryCluster ==
  /\ pc3 = "labels" =>
       /\ Len(Summary(labels, result, last_r)) = K
       /\ DOMAIN result_lift(cluster_item_stats(mat, labels), CONFIG3) = NonEmptyClusters
  /\ pc3 = "written" =>
       /\ Len(summary) = K
       /\ {summary[i].cluster : i \in DOMAIN summary} = 0..(K - 1)
       /\ SumMatches(summary) = Len(mat)
       /\ \A i \in DOMAIN summary :
            /\ summary[i].n_matches = Cardinality(ClusterRows(mat, labels, summary[i].cluster))
            /\ summary[i].n_matches = 0 =>
                 summary[i].winrate_pct = NaN /\ summary[i].median_final_round = NaN
            /\ summary[i].n_matches > 0 =>
                 IsNum(summary[i].winrate_pct) /\ IsNum(summary[i].median_final_round)
       /\ ClustersOf(stats_df) = NonEmptyClusters
       /\ DOMAIN core_by_lift = NonEmptyClusters
       /\ \A c \in NonEmptyClusters : Len(core_by_lift[c]) >= 1
       /\ files3.summary = summary

\* a run written with a cluster that has no match
C16_Witness ==
  /\ pc3 = "written"
  /\ \E i \in DOMAIN summary : summary[i].n_matches = 0 /\ summary[i].winrate_pct = NaN
  /\ \E i \in DOMAIN summary : summary[i].n_matches >= 2

\* every final-round item row with the label of its match
FinalRows ==
  {[match_id |-> p[1][1], item_name |-> p[1][3], result |-> p[2][3], last_r |-> p[2][2]] :
     p \in {q \in db3.round_items \X db3.rounds :
              /\ q[1][1] = q[2][1] /\ q[1][2] = q[2][2]
              /\ \A z \in db3.rounds : z[1] = q[2][1] => z[2] <= q[2][2]}}
\* the matches with an item, in any round, that the regex matches
HitMatches == {ri[1] : ri \in {x \in db3.round_items : x[3] \in cfgR.CLASS_REGEX.hits}}

\* C18: with no regex the fetched rows are all final-round item rows; with a
\* regex that matches no item of any match they are the same rows and a
\* warning is printed; with a regex matching an item of some match they are
\* the final-round rows of exactly the matches having a matching item in any
\* round.
C18_ClassFilterFailsOpen ==
  pc3 = "fetched" =>
    IF ~cfgR.CLASS_REGEX.truthy
    THEN df3 = FinalRows /\ log3 = <<>>
    ELSE IF HitMatches = {}
    THEN df3 = FinalRows /\ log3 = <<Event("WARN", <<>>)>>
    ELSE df3 = {r \in FinalRows : r.match_id \in HitMatches} /\ log3 = <<>>

\* a regex keeps one match through an item of an earlier round only and
\* drops the rows of another match
C18_Witness ==
  /\ pc3 = "fetched"
  /\ cfgR.CLASS_REGEX.truthy
  /\ HitMatches # {}
  /\ df3 # FinalRows
  /\ \E r \in df3 :
       \A q \in df3 : q.match_id = r.match_id => q.item_name \notin cfgR.CLASS_REGEX.hits

\* ---------------------------------------------------------------------
\* main.py: JSON -> DuckDB ingest
\* ---------------------------------------------------------------------

\* The raw files in ascending order of file name: a source_file is the
\* position of its name in that order, so the comparison of two names is
\* the comparison of two positions.
SourceFiles == {1, 2}
MatchIdsI == {1}
RoundIndexes == {1, 2}
ItemNamesI == {"a"}
ItemCounts == {0, 1}

\* one element of a file's rounds list, with the matchIndex of its record
RoundRecords ==
  [match_id : MatchIdsI, round_index : RoundIndexes, result : Results,
   items : [ItemNamesI -> ItemCounts]]

NoFile == [exists |-> FALSE, rows |-> {}]
RawFile(rows) == [exists |-> TRUE, rows |-> rows]

\* the files *.json can be: none, one record, or two records
RawFiles ==
  {RawFile(S) : S \in {T \in SUBSET RoundRecords : \A x \in T : \A y \in T :
                          \A z \in T : x = y \/ x = z \/ y = z}}

\* read_json_auto over RAW_GLOB fails when no file matches the pattern
GlobMatches(dir) == \E f \in SourceFiles : dir[f].exists

\* CTE u of sql_ingest_rounds
u_rounds(dir) ==
  UNION {{[source_file |-> f, match_id |-> r.match_id,
           round_index |-> r.round_index, result |-> r.result] :
            r \in dir[f].rows} : f \in SourceFiles}

\* CTE j of sql_ingest_items: one row per item of a round whose count is
\* positive
j_items(dir) ==
  UNION {UNION {{[source_file |-> f, match_id |-> r.match_id,
                  round_index |-> r.round_index, item_name |-> i,
                  item_count |-> r.items[i]] :
                   i \in {n \in ItemNamesI : r.items[n] > 0}} :
                 r \in dir[f].rows} : f \in SourceFiles}

RoundKey(x) == <<x.match_id, x.round_index>>
ItemKey(x) == <<x.match_id, x.round_index, x.item_name>>

\* ORDER BY source_file ascending
ComesFirst_Asc(x, y) == x.source_file <= y.source_file
\* ORDER BY source_file DESC: x is not after y
ComesFirst(x, y) == x.source_file >= y.source_file

\* the rows ROW_NUMBER() can number 1 in the partition of row x: the order
\* among rows of one file is not fixed
CanBeFirst(x, rows, key) ==
  \A y \in rows : key[y] = key[x] => ComesFirst(x, y)

\* INSERT ... WHERE rn = 1 AND NOT EXISTS (a row of the table with the
\* key): the tables the statement can leave; key maps a row to the
\* columns of its primary key
InsertFirst(rows, table, key) ==
  LET stored == {key[t] : t \in table}
      fresh == {key[x] : x \in rows} \ stored
      picks == {p \in [fresh -> rows] :
                  \A k \in fresh : key[p[k]] = k /\ CanBeFirst(p[k], rows, key)}
  IN {table \cup {p[k] : k \in fresh} : p \in picks}

sql_ingest_rounds(dir, table) ==
  LET u == u_rounds(dir)
  IN InsertFirst(u, table, [x \in u \cup table |-> RoundKey(x)])

sql_ingest_items(dir, table) ==
  LET j == j_items(dir)
  IN InsertFirst(j, table, [x \in j \cup table |-> ItemKey(x)])

InitI ==
  /\ Idle2
  /\ Idle3
  /\ Idle5
  /\ IdleM
  /\ IdleR
  /\ pcI = "idle"
  /\ raw_dir = [f \in SourceFiles |-> NoFile]
  /\ store = [rounds |-> {}, round_items |-> {}]

\* one run of main.py over the files now in RAW_DIR
Ingest ==
  /\ pcI # "off"
  /\ IF GlobMatches(raw_dir)
       THEN /\ \E r \in sql_ingest_rounds(raw_dir, store.rounds) :
                 \E i \in sql_ingest_items(raw_dir, store.round_items) :
                   store' = [rounds |-> r, round_items |-> i]
            /\ pcI' = "done"
       ELSE /\ store' = store
            /\ pcI' = "raised"
  /\ UNCHANGED raw_dir
  /\ UNCHANGED <<vars2, vars3, vars5, varsM, varsR>>

\* the extractor writes a new file into RAW_DIR
AddRawFile ==
  /\ pcI # "off"
  /\ \E f \in SourceFiles :
       /\ ~raw_dir[f].exists
       /\ \E c \in RawFiles : raw_dir' = [raw_dir EXCEPT ![f] = c]
  /\ pcI' = "idle"
  /\ UNCHANGED store
  /\ UNCHANGED <<vars2, vars3, vars5, varsM, varsR>>

\* a file is taken out of RAW_DIR
RemoveRawFile ==
  /\ pcI # "off"
  /\ \E f \in SourceFiles :
       /\ raw_dir[f].exists
       /\ raw_dir' = [raw_dir EXCEPT ![f] = NoFile]
  /\ pcI' = "idle"
  /\ UNCHANGED store
  /\ UNCHANGED <<vars2, vars3, vars5, varsM, varsR>>

NextI == Ingest \/ AddRawFile \/ RemoveRawFile

SpecIngest == InitI /\ [][NextI]_vars

\* ---------------------------------------------------------------------
\* main.py: properties
\* ---------------------------------------------------------------------

RoundKeysUnique(table) ==
  \A x \in table : \A y \in table : RoundKey(x) = RoundKey(y) => x = y

ItemKeysUnique(table) ==
  \A x \in table : \A y \in table : ItemKey(x) = ItemKey(y) => x = y

\* the greatest source file that holds a row with the key of x
GreatestSource(x, rows, key) ==
  Max({y.source_file : y \in {z \in rows : key[z] = key[x]}})

\* what a run over rows leaves in table': every key of rows that the table
\* did not hold has exactly one row, a row of the greatest source file
InsertsGreatest(rows, table, tableAfter, key) ==
  \A x \in rows :
    (\A t \in table : key[t] # key[x]) =>
      \E t \in tableAfter :
        /\ key[t] = key[x]
        /\ t \in rows
        /\ t.source_file = GreatestSource(x, rows, key)
        /\ \A s \in tableAfter : key[s] = key[x] => s = t

IngestStep ==
  /\ store.rounds \subseteq store'.rounds
  /\ store.round_items \subseteq store'.round_items
  /\ (pcI = "done" /\ raw_dir' = raw_dir) => store' = store
  /\ (pcI' = "done" /\ raw_dir' = raw_dir) =>
       /\ InsertsGreatest(u_rounds(raw_dir), store.rounds, store'.rounds,
                          [x \in u_rounds(raw_dir) \cup store'.rounds |-> RoundKey(x)])
       /\ InsertsGreatest(j_items(raw_dir), store.round_items, store'.round_items,
                          [x \in j_items(raw_dir) \cup store'.round_items |-> ItemKey(x)])
       /\ \A t \in store'.rounds \ store.rounds : t \in u_rounds(raw_dir)
       /\ \A t \in store'.round_items \ store.round_items : t \in j_items(raw_dir)

\* C19: whatever runs of the ingest happened over whatever files, each
\* table holds at most one row per key; a run never changes or removes a
\* stored row; a second run over the same files adds nothing; and a key
\* that a run finds in several files and that is not stored yet gets
\* exactly one row, taken from the greatest source file name.
C19_IngestDeduplicates ==
  /\ [](RoundKeysUnique(store.rounds) /\ ItemKeysUnique(store.round_items))
  /\ [][IngestStep]_vars

\* after a run: a round stored from file 1 although file 2 holds it with
\* another result, next to a round taken from file 2 while file 1 holds
\* it too, and an item row of file 1 for a round stored from file 2
C19_Witness ==
  /\ pcI = "done"
  /\ \E t \in store.rounds :
       /\ t.source_file = 1
       /\ \E y \in u_rounds(raw_dir) :
            y.source_file = 2 /\ RoundKey(y) = RoundKey(t) /\ y.result # t.result
  /\ \E t \in store.rounds :
       /\ t.source_file = 2
       /\ \E y \in u_rounds(raw_dir) : y.source_file = 1 /\ RoundKey(y) = RoundKey(t)
       /\ \E i \in store.round_items :
            i.source_file = 1 /\ RoundKey(i) = RoundKey(t)

====
